---- MODULE Spec2Model ----
(***************************************************************************)
(* Model of the Retools engine drivers (scripts/ai-driver.js and           *)
(* scripts/webhook-driver.js).                                             *)
(*                                                                         *)
(* Seven specifications share the module:                                  *)
(*   SpecApply     applyChanges run over a ChangeSet, then a second time   *)
(*   Spec          scanRepository (the depth-bounded walk), buildContext   *)
(*   SpecBrand     buildContext / extractBrandingContext over a file list  *)
(*   SpecRead      safeReadFile over files of UTF-8 bytes                  *)
(*   SpecManifest  buildContext / detectFramework over manifests           *)
(*   SpecHook      webhook-driver.js from its command line to its exit     *)
(*   SpecParse     callClaude recovering the ChangeSet from the response   *)
(***************************************************************************)
EXTENDS Integers, Sequences, FiniteSets, TLC

VARIABLES
    pc,            \* position in the running script, e.g. "scan", "call", "hook_send", "exit1"
    fsFiles,       \* applier filesystem: absolute path (tuple of segments) -> content
    fsDirs,        \* applier filesystem: set of directories (absolute paths)
    modifications, \* the ChangeSet returned by callClaude
    modIdx,        \* index of the operation the for-loop of applyChanges is at
    pass,          \* 1 = first application of the ChangeSet, 2 = second
    origFiles,     \* history: files before the first application
    origDirs,      \* history: directories before the first application
    onceFiles,     \* history: files after the first application
    onceDirs,      \* history: directories after the first application
    repo,          \* scanned repository: relative directory path -> its Dirents, in readdir order
    unreadable,    \* directories of the repository that readdirSync cannot read
    stack,         \* call stack of scanDir: frames [dir, depth, i]
    files,         \* the file list scanRepository collects
    readDirs,      \* history: directories readdirSync has been called on
    manifest,      \* package.json of the repository
    disk,          \* other files of the repository read by path: path -> [size, readable]
    context,       \* the GenerationContext built by buildContext, NoContext before
    rdFile,        \* safeReadFile: the file at filePath, [exists, readable, bytes]
    rdMax,         \* safeReadFile: maxBytes
    rdResult,      \* safeReadFile: the string returned, a sequence of characters
    responseText,  \* callClaude: the API response, [ok, text], text = data.content[0].text
    args,          \* webhook-driver: the command line, flag -> value
    env,           \* webhook-driver: process.env, "" for a variable that is not set
    now,           \* webhook-driver: the clock read by new Date()
    payload,       \* webhook-driver: the object buildPayload returned
    signature,     \* webhook-driver: the value generateSignature returned
    request,       \* webhook-driver: the POST handed to fetch, [signature, body]
    response,      \* webhook-driver: how the POST ended, "" while there is none
    attempts       \* webhook-driver: number of POSTs made

applyVars == <<fsFiles, fsDirs, modifications, modIdx, pass,
               origFiles, origDirs, onceFiles, onceDirs>>

scanVars == <<repo, unreadable, stack, files, readDirs>>

ctxVars == <<manifest, disk, context>>

readVars == <<rdFile, rdMax, rdResult>>

hookVars == <<args, env, now, payload, signature, request, response, attempts>>

restVars == <<readVars, responseText, hookVars>>

vars == <<pc, applyVars, scanVars, ctxVars, restVars>>

(***************************************************************************)
(* Bounds                                                                  *)
(***************************************************************************)
MaxMods == 3
\* deepest level of nested directories in a scanned repository
MaxTreeDepth == 5
\* longest file list handed to buildContext in SpecBrand
MaxListLen == 3

\* a repository without package.json
NoManifest == [exists |-> FALSE]

\* buildContext has not returned
NoContext == <<>>

\* safeReadFile is not being called on its own
ReadIdle == rdFile = [exists |-> FALSE] /\ rdMax = 0 /\ rdResult = <<>>

\* no response of the generation service is at hand
ParseIdle == responseText = <<>>

\* webhook-driver.js is not running
HookIdle ==
    /\ args = <<>> /\ env = <<>> /\ now = 0 /\ payload = <<>>
    /\ signature = <<>> /\ request = <<>> /\ response = "" /\ attempts = 0

RestIdle == ReadIdle /\ ParseIdle /\ HookIdle

(***************************************************************************)
(* Paths.  A path is a tuple of segments; an absolute path starts at the   *)
(* filesystem root <<>>.                                                   *)
(***************************************************************************)
WorkingDir == <<"w">>

RECURSIVE Normalize(_, _)
Normalize(segs, acc) ==
    IF segs = <<>> THEN acc
    ELSE IF Head(segs) = ".."
         THEN Normalize(Tail(segs),
                        IF acc = <<>> THEN <<>> ELSE SubSeq(acc, 1, Len(acc) - 1))
         ELSE Normalize(Tail(segs), Append(acc, Head(segs)))

\* path.join(workingDir, mod.path): concatenates, then resolves ".." lexically
PathJoin(base, rel) == Normalize(base \o rel, <<>>)

\* path.dirname
Dirname(p) == IF p = <<>> THEN <<>> ELSE SubSeq(p, 1, Len(p) - 1)

IsPrefix(a, b) == Len(a) <= Len(b) /\ SubSeq(b, 1, Len(a)) = a

\* proper ancestors of p, root included
Ancestors(p) == { SubSeq(p, 1, n) : n \in 0..(Len(p) - 1) }

\* p lies strictly inside the working tree
InsideRoot(p) == IsPrefix(WorkingDir, p) /\ p # WorkingDir

(***************************************************************************)
(* Filesystem primitives, on a record [files, dirs, threw]                 *)
(***************************************************************************)
IsFile(st, p) == p \in DOMAIN st.files
IsDir(st, p)  == p \in st.dirs

\* fs.existsSync
ExistsSync(st, p) == IsFile(st, p) \/ IsDir(st, p)

Threw(st) == [st EXCEPT !.threw = TRUE]

\* fs.unlinkSync: removes a file; EISDIR/EPERM on a directory, ENOENT when absent
UnlinkSync(st, p) ==
    IF IsFile(st, p)
    THEN [st EXCEPT !.files = [q \in (DOMAIN st.files) \ {p} |-> st.files[q]]]
    ELSE Threw(st)

\* fs.mkdirSync(dir, {recursive: true}): ENOTDIR/EEXIST when a file is in the way
MkdirSync(st, d) ==
    IF \E a \in Ancestors(d) \cup {d} : IsFile(st, a)
    THEN Threw(st)
    ELSE [st EXCEPT !.dirs = st.dirs \cup Ancestors(d) \cup {d}]

\* fs.writeFileSync: EISDIR on a directory, ENOTDIR/ENOENT when the parent is no directory
WriteFileSync(st, p, content) ==
    IF IsDir(st, p) \/ ~IsDir(st, Dirname(p))
    THEN Threw(st)
    ELSE [st EXCEPT !.files = (p :> content) @@ st.files]

(***************************************************************************)
(* applyChanges: the body of the for-loop, for one operation               *)
(***************************************************************************)
\* a delete without the existsSync guard
DeleteOp_NoExistsCheck(st, mod) ==
    UnlinkSync(st, PathJoin(WorkingDir, mod.path))

DeleteOp(st, mod) ==
    LET filePath == PathJoin(WorkingDir, mod.path) IN
    IF ExistsSync(st, filePath) THEN UnlinkSync(st, filePath) ELSE st

\* a write that leaves an existing file as it is
WriteOp_KeepExisting(st, mod) ==
    LET filePath == PathJoin(WorkingDir, mod.path)
        dir      == Dirname(filePath)
        made     == IF ~ExistsSync(st, dir) THEN MkdirSync(st, dir) ELSE st
    IN  IF made.threw THEN made
        ELSE IF IsFile(made, filePath) THEN made
        ELSE WriteFileSync(made, filePath, mod.content)

WriteOp(st, mod) ==
    LET filePath == PathJoin(WorkingDir, mod.path)
        dir      == Dirname(filePath)
        made     == IF ~ExistsSync(st, dir) THEN MkdirSync(st, dir) ELSE st
    IN  IF made.threw THEN made ELSE WriteFileSync(made, filePath, mod.content)

ApplyOne(st, mod) ==
    IF mod.action = "delete" THEN DeleteOp(st, mod)
    ELSE IF mod.action \in {"create", "modify"} THEN WriteOp(st, mod)
    ELSE st

\* the filesystem as the record the primitives work on
CurFs == [files |-> fsFiles, dirs |-> fsDirs, threw |-> FALSE]

\* applyChanges as a whole, up to the first operation that throws:
\* the for-loop over mods[1..k]
RECURSIVE ApplyPrefix(_, _, _)
ApplyPrefix(st, mods, k) ==
    IF k = 0 THEN st
    ELSE LET before == ApplyPrefix(st, mods, k - 1)
         IN  IF before.threw THEN before ELSE ApplyOne(before, mods[k])

\* the filesystem at the start of the current application
StartFs == [files |-> IF pass = 1 THEN origFiles ELSE onceFiles,
            dirs  |-> IF pass = 1 THEN origDirs ELSE onceDirs,
            threw |-> FALSE]

(***************************************************************************)
(* Inputs of the applier                                                   *)
(***************************************************************************)
\* mod.path values the generation service may return
ModPaths == { <<"a">>, <<"a", "b">>, <<"a", "..", "b">>, <<"..", "a">> }

ModChoices ==
    { [path |-> p, action |-> "delete"] : p \in ModPaths }
    \cup { [path |-> p, action |-> "create", content |-> "hi"] : p \in ModPaths }
    \cup { [path |-> p, action |-> "modify", content |-> "yo"] : p \in ModPaths }

ChangeSets == UNION { [1..n -> ModChoices] : n \in 0..MaxMods }

BaseDirs == { <<>>, WorkingDir }

\* working trees the job may start from, with or without a file /a outside the tree
InitialTrees ==
    LET outside == { <<>>, (<<"a">> :> "old") }
        inside  == { [files |-> <<>>, dirs |-> BaseDirs],
                     [files |-> (<<"w", "a">> :> "old"), dirs |-> BaseDirs],
                     [files |-> (<<"w", "a", "b">> :> "old"),
                      dirs  |-> BaseDirs \cup { <<"w", "a">> }] }
    IN  { [files |-> t.files @@ o, dirs |-> t.dirs] : t \in inside, o \in outside }

(***************************************************************************)
(* main() around applyChanges                                              *)
(***************************************************************************)
\* a failure that restores the tree the application started from
Throw_Rollback(r) ==
    /\ pc' = "exit1"
    /\ fsFiles' = StartFs.files
    /\ fsDirs' = StartFs.dirs
    /\ UNCHANGED <<modifications, modIdx, pass, origFiles, origDirs, onceFiles, onceDirs,
                   scanVars, ctxVars, restVars>>

\* an exception leaves applyChanges and reaches the catch of main(): process.exit(1)
Throw(r) ==
    /\ pc' = "exit1"
    /\ fsFiles' = r.files
    /\ fsDirs' = r.dirs
    /\ UNCHANGED <<modifications, modIdx, pass, origFiles, origDirs, onceFiles, onceDirs,
                   scanVars, ctxVars, restVars>>

\* the operation went through: the loop moves to the next one
NextMod(r) ==
    /\ pc' = "apply"
    /\ fsFiles' = r.files
    /\ fsDirs' = r.dirs
    /\ modIdx' = modIdx + 1
    /\ UNCHANGED <<modifications, pass, origFiles, origDirs, onceFiles, onceDirs,
                   scanVars, ctxVars, restVars>>

AtMod == pc = "apply" /\ modIdx <= Len(modifications)

ApplyDelete ==
    /\ AtMod
    /\ modifications[modIdx].action = "delete"
    /\ LET r == DeleteOp(CurFs, modifications[modIdx])
       IN  IF r.threw THEN Throw(r) ELSE NextMod(r)

ApplyWrite ==
    /\ AtMod
    /\ modifications[modIdx].action \in {"create", "modify"}
    /\ LET r == WriteOp(CurFs, modifications[modIdx])
       IN  IF r.threw THEN Throw(r) ELSE NextMod(r)

\* the loop is over: "All changes applied", then process.exit(0)
ApplyFinish ==
    /\ pc = "apply"
    /\ modIdx > Len(modifications)
    /\ pc' = "exit0"
    /\ UNCHANGED <<applyVars, scanVars, ctxVars, restVars>>

\* the same ChangeSet is applied a second time to the tree the first run left
ApplyAgain ==
    /\ pc \in {"exit0", "exit1"}
    /\ pass = 1
    /\ pass' = 2
    /\ onceFiles' = fsFiles
    /\ onceDirs' = fsDirs
    /\ modIdx' = 1
    /\ pc' = "apply"
    /\ UNCHANGED <<fsFiles, fsDirs, modifications, origFiles, origDirs, scanVars, ctxVars, restVars>>

InitApply ==
    /\ pc = "apply"
    /\ \E t \in InitialTrees :
         /\ fsFiles = t.files /\ fsDirs = t.dirs
         /\ origFiles = t.files /\ origDirs = t.dirs
         /\ onceFiles = t.files /\ onceDirs = t.dirs
    /\ modifications \in ChangeSets
    /\ modIdx = 1
    /\ pass = 1
    /\ repo = <<>> /\ unreadable = {} /\ stack = <<>> /\ files = <<>> /\ readDirs = {}
    /\ manifest = NoManifest /\ disk = <<>> /\ context = NoContext
    /\ RestIdle

NextApply == ApplyDelete \/ ApplyWrite \/ ApplyFinish \/ ApplyAgain

SpecApply == InitApply /\ [][NextApply]_vars

(***************************************************************************)
(* Claims about applyChanges                                               *)
(***************************************************************************)
ResolvedPath(i) == PathJoin(WorkingDir, modifications[i].path)
IsWrite(m) == m.action \in {"create", "modify"}
Finished == pc \in {"exit0", "exit1"}

\* C1: after applyChanges no file outside the working root has been created,
\* overwritten or deleted, whatever the paths of the ChangeSet.
C1_PathSafety ==
    \A p \in (DOMAIN fsFiles) \cup (DOMAIN origFiles) :
        ~InsideRoot(p) =>
            /\ p \in DOMAIN fsFiles
            /\ p \in DOMAIN origFiles
            /\ fsFiles[p] = origFiles[p]

\* C2: applying the ChangeSet twice leaves the same files, contents and
\* directories as applying it once.
C2_Idempotent ==
    (pass = 2 /\ Finished) => (fsFiles = onceFiles /\ fsDirs = onceDirs)

\* C3: after applyChanges completes without error, every path named in the
\* ChangeSet is in the state given by the last operation naming it: a file with
\* that content under existing parent directories, or no file.
C3_LastWriteWins ==
    pc = "exit0" =>
        \A i \in 1..Len(modifications) :
            (\A j \in (i + 1)..Len(modifications) : ResolvedPath(j) # ResolvedPath(i))
            => IF IsWrite(modifications[i])
               THEN /\ ResolvedPath(i) \in DOMAIN fsFiles
                    /\ fsFiles[ResolvedPath(i)] = modifications[i].content
                    /\ Ancestors(ResolvedPath(i)) \subseteq fsDirs
               ELSE ResolvedPath(i) \notin DOMAIN fsFiles

\* a ChangeSet where the last write changed the file and created its directory
C3_Witness ==
    /\ pc = "exit0"
    /\ pass = 1
    /\ Len(modifications) >= 2
    /\ ResolvedPath(1) = ResolvedPath(2)
    /\ IsWrite(modifications[1]) /\ IsWrite(modifications[2])
    /\ modifications[1].content # modifications[2].content
    /\ ResolvedPath(2) = <<"w", "a", "b">>
    /\ <<"w", "a">> \notin origDirs
    /\ fsFiles[<<"w", "a", "b">>] = modifications[2].content

DeleteOfMissing ==
    /\ AtMod
    /\ modifications[modIdx].action = "delete"
    /\ ~ExistsSync(CurFs, ResolvedPath(modIdx))

\* C4: a delete whose resolved path does not exist raises no error, changes
\* nothing on the filesystem, and the loop goes on to the next operation.
C4_DeleteMissingNoOp ==
    [][DeleteOfMissing =>
          /\ fsFiles' = fsFiles
          /\ fsDirs' = fsDirs
          /\ pc' = "apply"
          /\ modIdx' = modIdx + 1]_vars

\* a delete of a missing path went through and the operation after it was applied
C4_Witness ==
    /\ pc = "exit0"
    /\ pass = 1
    /\ Len(modifications) = 2
    /\ modifications[1].action = "delete"
    /\ ResolvedPath(1) \notin (DOMAIN origFiles) \cup origDirs
    /\ IsWrite(modifications[2])
    /\ ResolvedPath(2) \notin DOMAIN origFiles
    /\ ResolvedPath(2) \in DOMAIN fsFiles

OpThrows == AtMod /\ ApplyOne(CurFs, modifications[modIdx]).threw

\* C5: a failing k-th operation ends the job with exit 1, nothing after it is
\* applied, and the effects of operations 1..k-1 stay on disk.
C5_FailureIsFatal ==
    /\ [](pc = "exit1" =>
            /\ modIdx \in 1..Len(modifications)
            /\ ApplyOne(CurFs, modifications[modIdx]).threw
            /\ LET done == ApplyPrefix(StartFs, modifications, modIdx - 1)
               IN  ~done.threw /\ fsFiles = done.files /\ fsDirs = done.dirs)
    /\ [][OpThrows => (pc' = "exit1" /\ modIdx' = modIdx
                       /\ fsFiles' = fsFiles /\ fsDirs' = fsDirs)]_vars

\* an operation failed after earlier ones had changed the tree
C5_Witness ==
    /\ pc = "exit1"
    /\ pass = 1
    /\ modIdx = 3
    /\ fsFiles # origFiles
    /\ fsDirs # origDirs

\* applying twice agrees with applying once when the second run ends without error
ApplyTwiceSameWhenNoError ==
    (pass = 2 /\ pc = "exit0") => (fsFiles = onceFiles /\ fsDirs = onceDirs)

(***************************************************************************)
(* Strings                                                                 *)
(***************************************************************************)
StartsWith(s, p) == Len(p) <= Len(s) /\ SubSeq(s, 1, Len(p)) = p
EndsWith(s, p)   == Len(p) <= Len(s) /\ SubSeq(s, Len(s) - Len(p) + 1, Len(s)) = p
Includes(s, p)   == \E i \in 1..(Len(s) - Len(p) + 1) : SubSeq(s, i, i + Len(p) - 1) = p

SetMax(S) == CHOOSE x \in S : \A y \in S : y <= x

\* path.extname: from the last "." on, "" without one or when the name starts with it
ExtName(name) ==
    LET dots == { i \in 1..Len(name) : SubSeq(name, i, i) = "." }
    IN  IF dots = {} \/ SetMax(dots) = 1 THEN "" ELSE SubSeq(name, SetMax(dots), Len(name))

\* path.relative(workingDir, path.join(dir, entry.name)), dir given relative to workingDir
RelJoin(dir, name) == IF dir = "" THEN name ELSE dir \o "/" \o name

\* number of "/" in a relative path: the depth of the directory holding the file
SlashCount(path) == Cardinality({ i \in 1..Len(path) : SubSeq(path, i, i) = "/" })

\* depth of a directory given by its relative path, the root "" at depth 0
DirDepth(dir) == IF dir = "" THEN 0 ELSE SlashCount(dir) + 1

(***************************************************************************)
(* scanRepository                                                          *)
(***************************************************************************)
maxFiles == 50
DepthLimit == 3

SourceExts == { ".js", ".ts", ".jsx", ".tsx", ".py", ".rb", ".go", ".rs", ".java",
                ".svelte", ".vue", ".css", ".html", ".json", ".md" }

\* the ignore patterns of scanDir
Ignored(name) ==
    \/ StartsWith(name, ".")
    \/ name \in { "node_modules", "dist", "build", "__pycache__" }

TooDeep_OffByOne(depth) == depth > DepthLimit + 1

\* if (depth > 3) return
TooDeep(depth) == depth > DepthLimit

HasRoom_OffByOne(list) == Len(list) <= maxFiles

\* files.length < maxFiles
HasRoom(list) == Len(list) < maxFiles

Top == stack[Len(stack)]
Pop == SubSeq(stack, 1, Len(stack) - 1)
Advance == [stack EXCEPT ![Len(stack)].i = @ + 1]

\* scanDir returns to its caller; the outermost return ends scanRepository and
\* main() goes on to buildContext
ScanPop ==
    /\ stack' = Pop
    /\ pc' = IF Len(stack) = 1 THEN "context" ELSE "scan"

\* entry of scanDir(dir, depth): the depth check, then fs.readdirSync
ScanEnter ==
    /\ pc = "scan"
    /\ stack # <<>>
    /\ Top.i = 0
    /\ IF TooDeep(Top.depth)
       THEN ScanPop /\ UNCHANGED readDirs
       ELSE /\ readDirs' = readDirs \cup {Top.dir}
            /\ IF Top.dir \in unreadable
               THEN pc' = "exit1" /\ UNCHANGED stack
               ELSE pc' = "scan" /\ stack' = Advance
    /\ UNCHANGED <<applyVars, repo, unreadable, files, ctxVars, restVars>>

\* one iteration of the loop over the entries of the directory
ScanEntry ==
    /\ pc = "scan"
    /\ stack # <<>>
    /\ Top.i \in 1..Len(repo[Top.dir])
    /\ LET entry == repo[Top.dir][Top.i]
           relativePath == RelJoin(Top.dir, entry.name)
       IN  IF Ignored(entry.name)
           THEN stack' = Advance /\ UNCHANGED files
           ELSE IF entry.kind = "dir"
           THEN /\ stack' = Append(Advance, [dir |-> relativePath, depth |-> Top.depth + 1, i |-> 0])
                /\ UNCHANGED files
           ELSE IF entry.kind = "file" /\ HasRoom(files)
           THEN /\ files' = IF ExtName(entry.name) \in SourceExts
                            THEN Append(files, relativePath) ELSE files
                /\ stack' = Advance
           ELSE stack' = Advance /\ UNCHANGED files
    /\ UNCHANGED <<pc, applyVars, repo, unreadable, readDirs, ctxVars, restVars>>

\* the loop over the entries is over
ScanReturn ==
    /\ pc = "scan"
    /\ stack # <<>>
    /\ Top.i > Len(repo[Top.dir])
    /\ ScanPop
    /\ UNCHANGED <<applyVars, repo, unreadable, files, readDirs, ctxVars, restVars>>

(***************************************************************************)
(* safeReadFile.  What a read returns is [src, bytes, truncated]: the      *)
(* first `bytes` bytes of file `src`, followed by the truncation marker    *)
(* when `truncated`.  The empty string is EmptyText.                       *)
(***************************************************************************)
DefaultMaxBytes == 8000

EmptyText == [src |-> "", bytes |-> 0, truncated |-> FALSE]

\* a JavaScript string is truthy when it is not empty
Truthy(text) == text.bytes > 0 \/ text.truncated

SafeReadFile(filePath, maxBytes) ==
    IF filePath \notin DOMAIN disk THEN EmptyText
    ELSE IF ~disk[filePath].readable THEN EmptyText
    ELSE IF disk[filePath].size > maxBytes
         THEN [src |-> filePath, bytes |-> maxBytes, truncated |-> TRUE]
    ELSE IF disk[filePath].size = 0 THEN EmptyText
    ELSE [src |-> filePath, bytes |-> disk[filePath].size, truncated |-> FALSE]

(***************************************************************************)
(* findFiles                                                               *)
(***************************************************************************)
Range(seq) == { seq[k] : k \in 1..Len(seq) }

PatternMatches(f, p) ==
    IF StartsWith(p, "*") THEN EndsWith(f, SubSeq(p, 2, Len(p)))
    ELSE IF EndsWith(p, "*") THEN StartsWith(f, SubSeq(p, 1, Len(p) - 1))
    ELSE f = p \/ EndsWith(f, "/" \o p) \/ Includes(f, p)

MatchesAny(f, patterns) == \E p \in Range(patterns) : PatternMatches(f, p)

\* matches ordered by candidate first, by file list second
FindFiles_ByCandidate(fileList, patterns) ==
    LET of(k) == SelectSeq(fileList, LAMBDA f :
                     /\ PatternMatches(f, patterns[k])
                     /\ \A j \in 1..(k - 1) : ~PatternMatches(f, patterns[j]))
        join[k \in 0..Len(patterns)] == IF k = 0 THEN <<>> ELSE join[k - 1] \o of(k)
    IN  join[Len(patterns)]

\* fileList.filter(f => patterns.some(p => ...)): the matches, in file list order
FindFiles(fileList, patterns) ==
    SelectSeq(fileList, LAMBDA f : MatchesAny(f, patterns))

(***************************************************************************)
(* extractBrandingContext                                                  *)
(***************************************************************************)
readmePatterns == << "README.md", "readme.md", "Readme.md" >>
tailwindPatterns == << "tailwind.config.js", "tailwind.config.ts",
                       "tailwind.config.mjs", "tailwind.config.cjs" >>
cssPatterns == << "app.css", "globals.css", "global.css", "index.css", "main.css",
                  "styles/globals.css", "styles/global.css", "src/app.css", "src/index.css",
                  "src/styles/globals.css", "app/globals.css", "app/layout.css" >>
layoutPatterns == << "+layout.svelte", "layout.svelte",
                     "app/layout.tsx", "app/layout.jsx", "app/layout.js",
                     "_app.tsx", "_app.jsx", "_app.js",
                     "App.vue", "App.svelte", "App.tsx", "App.jsx" >>
navPatterns == << "Navbar", "navbar", "Header", "header", "Nav.", "nav.",
                  "TopBar", "topbar", "AppBar", "appbar", "SiteHeader", "Navigation" >>
homePatterns == << "+page.svelte", "page.tsx", "page.jsx", "page.js",
                   "index.tsx", "index.jsx", "index.svelte", "Home.tsx", "Home.jsx" >>

ReadmeCap == 4000
LayoutCap == 6000
NavCap == 4000
HomeCap == 6000
\* layoutMatches.slice(0, 2), navMatches.slice(0, 2), homeMatches.slice(0, 1)
LayoutTake == 2
NavTake == 2
HomeTake == 1
\* f.split('/').length <= 3
HomeSegments == 3

Slice(seq, n) == SubSeq(seq, 1, IF Len(seq) < n THEN Len(seq) ELSE n)

\* for (const f of list) { content = safeReadFile(f, cap); if (content) { slot = content; break } }
RECURSIVE FirstRead(_, _)
FirstRead(list, cap) ==
    IF list = <<>> THEN EmptyText
    ELSE IF Truthy(SafeReadFile(Head(list), cap)) THEN SafeReadFile(Head(list), cap)
    ELSE FirstRead(Tail(list), cap)

\* for (const f of list) { content = safeReadFile(f, cap); if (content) out.push({path, content}) }
RECURSIVE ReadAll(_, _)
ReadAll(list, cap) ==
    IF list = <<>> THEN <<>>
    ELSE (IF Truthy(SafeReadFile(Head(list), cap))
          THEN << [path |-> Head(list), content |-> SafeReadFile(Head(list), cap)] >>
          ELSE <<>>) \o ReadAll(Tail(list), cap)

\* an optional key of a JavaScript object
Slot(key, present, value) == IF present THEN key :> value ELSE <<>>

\* JSON.parse(fs.readFileSync('package.json')) returns an object
ParsesToObject(m) == m.exists /\ m.readable /\ m.json = "object"

\* 1. README: the first readable candidate, read by name from the working directory
ReadmeSlot_OnlyWithoutManifestName ==
    LET content == FirstRead(readmePatterns, ReadmeCap)
    IN  Slot("readme",
             Truthy(content) /\ ~(ParsesToObject(manifest) /\ manifest.name # ""),
             content)

ReadmeSlot ==
    LET content == FirstRead(readmePatterns, ReadmeCap)
    IN  Slot("readme", Truthy(content), content)

\* 7. package.json name and description, inside try { } catch {}
ManifestSlots ==
    IF ParsesToObject(manifest)
    THEN Slot("projectName", manifest.name # "", manifest.name)
         @@ Slot("projectDescription", manifest.description # "", manifest.description)
    ELSE <<>>

ExtractBrandingContext(fileList) ==
    LET tailwind == FirstRead(FindFiles(fileList, tailwindPatterns), DefaultMaxBytes)
        css      == FirstRead(FindFiles(fileList, cssPatterns), DefaultMaxBytes)
        layouts  == ReadAll(Slice(FindFiles(fileList, layoutPatterns), LayoutTake), LayoutCap)
        navs     == ReadAll(Slice(FindFiles(fileList, navPatterns), NavTake), NavCap)
        homes    == SelectSeq(FindFiles(fileList, homePatterns),
                              LAMBDA f : SlashCount(f) + 1 <= HomeSegments)
        home     == ReadAll(Slice(homes, HomeTake), HomeCap)
    IN  ReadmeSlot
        @@ Slot("tailwindConfig", Truthy(tailwind), tailwind)
        @@ Slot("globalCSS", Truthy(css), css)
        @@ Slot("layouts", layouts # <<>>, layouts)
        @@ Slot("navComponents", navs # <<>>, navs)
        @@ Slot("homepage", home # <<>>, IF home # <<>> THEN home[1] ELSE EmptyText)
        @@ ManifestSlots

(***************************************************************************)
(* detectFramework and buildContext                                        *)
(***************************************************************************)
\* deps[name] is truthy: the merged object has the key with a non-empty version
HasDep(deps, name) == name \in DOMAIN deps /\ deps[name] # ""

DetectFramework(pkg) ==
    LET deps == pkg.devDependencies @@ pkg.dependencies
    IN  IF HasDep(deps, "next") THEN "Next.js"
        ELSE IF HasDep(deps, "react") THEN "React"
        ELSE IF HasDep(deps, "vue") THEN "Vue"
        ELSE IF HasDep(deps, "svelte") THEN "Svelte"
        ELSE IF HasDep(deps, "@angular/core") THEN "Angular"
        ELSE IF HasDep(deps, "express") THEN "Express"
        ELSE "Unknown"

\* files.slice(0, 30)
ContextFiles == 30

\* JSON.parse(...) outside any try: a package.json that does not parse to an
\* object makes buildContext throw
ManifestThrows == manifest.exists /\ ~ParsesToObject(manifest)

BuildContext ==
    /\ pc = "context"
    /\ IF ManifestThrows
       THEN pc' = "exit1" /\ UNCHANGED context
       ELSE /\ pc' = "call"
            /\ context' =
                 ("files" :> Slice(files, ContextFiles))
                 @@ Slot("framework", manifest.exists, DetectFramework(manifest))
                 @@ Slot("dependencies", manifest.exists, DOMAIN manifest.dependencies)
                 @@ ("branding" :> ExtractBrandingContext(files))
    /\ UNCHANGED <<applyVars, scanVars, manifest, disk, restVars>>

Pkg(json, readable, name, description, dependencies, devDependencies) ==
    [exists |-> TRUE, readable |-> readable, json |-> json, name |-> name,
     description |-> description, dependencies |-> dependencies,
     devDependencies |-> devDependencies]

NoDeps == <<>>

ScanManifests ==
    { NoManifest,
      Pkg("invalid", TRUE, "", "", NoDeps, NoDeps),
      Pkg("object", TRUE, "acme", "", ("react" :> "18.2.0"), NoDeps) }

(***************************************************************************)
(* Repositories to scan: a chain of nested directories d, d/d, ... each    *)
(* holding `fan` source files, an image, a symlink, .git and node_modules  *)
(***************************************************************************)
RECURSIVE LevelDir(_)
LevelDir(i) == IF i = 0 THEN "" ELSE RelJoin(LevelDir(i - 1), "d")

FanChoices == { 0, 1, 20 }

Shapes ==
    { [depth |-> d, fan |-> f, dirsFirst |-> o, noRead |-> u] :
        d \in 0..MaxTreeDepth, f \in FanChoices, o \in BOOLEAN, u \in -1..MaxTreeDepth }

Dirent(name, kind) == [name |-> name, kind |-> kind]

LevelEntries(shape, i) ==
    LET srcs  == [k \in 1..shape.fan |-> Dirent("f" \o ToString(k) \o ".js", "file")]
        other == << Dirent(".git", "dir"), Dirent("node_modules", "dir"),
                    Dirent("logo.png", "file"), Dirent("link", "symlink") >>
        sub   == IF i < shape.depth THEN << Dirent("d", "dir") >> ELSE <<>>
    IN  IF shape.dirsFirst THEN sub \o other \o srcs ELSE srcs \o other \o sub

RECURSIVE TreeFrom(_, _)
TreeFrom(shape, i) ==
    (LevelDir(i) :> LevelEntries(shape, i))
    @@ (RelJoin(LevelDir(i), ".git") :> << Dirent("config.json", "file") >>)
    @@ (RelJoin(LevelDir(i), "node_modules") :> << Dirent("index.js", "file") >>)
    @@ (IF i < shape.depth THEN TreeFrom(shape, i + 1) ELSE <<>>)

ApplyIdle ==
    /\ fsFiles = <<>> /\ fsDirs = {} /\ modifications = <<>> /\ modIdx = 1 /\ pass = 1
    /\ origFiles = <<>> /\ origDirs = {} /\ onceFiles = <<>> /\ onceDirs = {}

InitScan ==
    /\ pc = "scan"
    /\ ApplyIdle
    /\ \E shape \in Shapes :
         /\ shape.noRead <= shape.depth
         /\ repo = TreeFrom(shape, 0)
         /\ unreadable = IF shape.noRead < 0 THEN {} ELSE { LevelDir(shape.noRead) }
    /\ stack = << [dir |-> "", depth |-> 0, i |-> 0] >>
    /\ files = <<>>
    /\ readDirs = {}
    /\ manifest \in ScanManifests
    /\ disk \in { <<>>, ("README.md" :> [size |-> 100, readable |-> TRUE]) }
    /\ context = NoContext
    /\ RestIdle

NextScan == ScanEnter \/ ScanEntry \/ ScanReturn \/ BuildContext

Spec == InitScan /\ [][NextScan]_vars

\* C7: no directory deeper than the depth limit is read and no file below it is collected
C7_DepthBound ==
    /\ \A d \in readDirs : DirDepth(d) <= DepthLimit
    /\ \A k \in 1..Len(files) : SlashCount(files[k]) <= DepthLimit

\* the walk ended below the file cap on a tree with source files at depths 3 and 4
C7_Witness ==
    /\ pc = "context"
    /\ Len(files) < maxFiles
    /\ "d/d/d/d" \in DOMAIN repo
    /\ \E k \in 1..Len(repo["d/d/d/d"]) : repo["d/d/d/d"][k].name = "f1.js"
    /\ \E k \in 1..Len(files) : files[k] = "d/d/d/f1.js"

\* C6: scanRepository followed by buildContext never raises, whatever the repository
C6_NeverFails == pc # "exit1"

Built == "files" \in DOMAIN context

\* C8: the collected list never exceeds maxFiles, and the context holds its
\* first 30 entries at most, in walk order
C8_FileCeiling ==
    /\ Len(files) <= maxFiles
    /\ Built =>
         /\ Len(context.files) <= ContextFiles
         /\ context.files = SubSeq(files, 1, Len(context.files))
         /\ Len(context.files) = ContextFiles \/ Len(context.files) = Len(files)

\* the walk met a source file it left out because the list was full
C8_Witness ==
    /\ pc = "call"
    /\ Len(files) = maxFiles
    /\ Len(context.files) = ContextFiles
    /\ \E d \in readDirs : \E k \in 1..Len(repo[d]) :
         /\ repo[d][k].name = "f20.js"
         /\ RelJoin(d, "f20.js") \notin Range(files)

(***************************************************************************)
(* buildContext over file lists holding branding candidates                *)
(***************************************************************************)
BrandFiles == { "app.css", "src/index.css", "styles/globals.css",
                "tailwind.config.ts", "tailwind.config.js", "src/Navbar.tsx" }

FileLists ==
    { l \in UNION { [1..n -> BrandFiles] : n \in 0..MaxListLen } :
        \A i, j \in 1..Len(l) : i # j => l[i] # l[j] }

OnDisk(size) == [size |-> size, readable |-> TRUE]

\* every listed file is on disk; `blank` are the ones that are empty or unreadable
BrandDisks ==
    { [f \in BrandFiles \cup R |->
          IF f \in blank THEN (IF f = "app.css" THEN [size |-> 100, readable |-> FALSE]
                               ELSE OnDisk(0))
          ELSE IF f = "styles/globals.css" THEN OnDisk(9000)
          ELSE OnDisk(100)] :
        blank \in { {} } \cup { {f} : f \in BrandFiles \cup {"README.md"} },
        R \in { {}, {"README.md"}, {"readme.md"}, {"README.md", "readme.md"} } }

BrandManifests ==
    { NoManifest,
      Pkg("invalid", TRUE, "", "", NoDeps, NoDeps),
      Pkg("object", TRUE, "acme", "a tool", ("next" :> "14.0.0"), ("react" :> "18.2.0")),
      Pkg("object", TRUE, "", "", NoDeps, NoDeps) }

InitBrand ==
    /\ pc = "context"
    /\ ApplyIdle
    /\ repo = <<>> /\ unreadable = {} /\ stack = <<>> /\ readDirs = {}
    /\ files \in FileLists
    /\ manifest \in BrandManifests
    /\ disk \in BrandDisks
    /\ context = NoContext
    /\ RestIdle

NextBrand == BuildContext

SpecBrand == InitBrand /\ [][NextBrand]_vars

\* the file can be read and is not empty
Readable(path) == path \in DOMAIN disk /\ disk[path].readable /\ disk[path].size > 0

ManifestIdentity ==
    \/ "projectName" \in DOMAIN context.branding
    \/ "projectDescription" \in DOMAIN context.branding

\* C9 as stated: the readme is used only when the manifest gives no name or
\* description
C9_ManifestElseReadme ==
    (Built /\ ManifestIdentity) => "readme" \notin DOMAIN context.branding

\* C9 amended: the readme slot and the manifest slots are filled independently:
\* the readme is the first readable candidate whether or not the manifest gives
\* a name, and the manifest name and description are added whenever it has them
C9_IdentityFromBoth ==
    Built =>
        LET b == context.branding
            readable == { k \in 1..Len(readmePatterns) : Readable(readmePatterns[k]) }
        IN  /\ "readme" \in DOMAIN b <=> readable # {}
            /\ "readme" \in DOMAIN b =>
                 b.readme.src = readmePatterns[CHOOSE k \in readable : \A j \in readable : k <= j]
            /\ "projectName" \in DOMAIN b <=> (ParsesToObject(manifest) /\ manifest.name # "")
            /\ "projectName" \in DOMAIN b => b.projectName = manifest.name
            /\ "projectDescription" \in DOMAIN b
                 <=> (ParsesToObject(manifest) /\ manifest.description # "")
            /\ "projectDescription" \in DOMAIN b => b.projectDescription = manifest.description

\* a repository with a manifest name and a readme gets both
C9_Witness ==
    /\ Built
    /\ "projectName" \in DOMAIN context.branding
    /\ "readme" \in DOMAIN context.branding
    /\ context.branding.readme.src = "readme.md"

\* the candidates of `patterns` that some readable file of the list matches
CandidatesHit(patterns) ==
    { k \in 1..Len(patterns) :
        \E f \in Range(files) : PatternMatches(f, patterns[k]) /\ Readable(f) }

EarliestCandidate(slot, patterns) ==
    slot \in DOMAIN context.branding =>
        PatternMatches(context.branding[slot].src,
                       patterns[CHOOSE k \in CandidatesHit(patterns) :
                                    \A j \in CandidatesHit(patterns) : k <= j])

\* C10 as stated: the theme and global style slots hold the file matching the
\* earliest candidate of the list, whatever the order of the file list
C10_EarliestCandidate ==
    Built => /\ EarliestCandidate("tailwindConfig", tailwindPatterns)
             /\ EarliestCandidate("globalCSS", cssPatterns)

FirstInList(slot, patterns) ==
    LET hits == { i \in 1..Len(files) : MatchesAny(files[i], patterns) /\ Readable(files[i]) }
    IN  /\ slot \in DOMAIN context.branding <=> hits # {}
        /\ slot \in DOMAIN context.branding =>
             context.branding[slot].src = files[CHOOSE i \in hits : \A j \in hits : i <= j]

\* C10 amended: the theme and global style slots hold the first file, in the
\* order of the collected file list, that matches any candidate and reads
\* non-empty; the order of the candidate list plays no part
C10_FirstInListOrder ==
    Built => /\ FirstInList("tailwindConfig", tailwindPatterns)
             /\ FirstInList("globalCSS", cssPatterns)

\* the list holds a match of a later candidate before a match of an earlier one,
\* and the slot holds the former
C10_Witness ==
    /\ Built
    /\ Len(files) >= 2
    /\ files[1] = "src/index.css"
    /\ files[2] = "app.css"
    /\ Readable("app.css")
    /\ context.branding.globalCSS.src = "src/index.css"

(***************************************************************************)
(* safeReadFile at the level of bytes (ai-driver.js 109-126).  A file is   *)
(* a sequence of bytes; its text is UTF-8.  An ASCII character is one      *)
(* byte, written as the character itself; E_ACUTE is a two-byte character. *)
(* Buffer.toString('utf-8') decodes an incomplete sequence at the end of   *)
(* the buffer to REPLACEMENT (U+FFFD), whose encoding has three bytes.     *)
(***************************************************************************)
MaxFileChars == 3

MaxCap == 4

E_ACUTE == "e'"

REPLACEMENT == "fffd"

Utf8EncodeChar(ch) ==
    IF ch = E_ACUTE THEN <<"c3", "a9">>
    ELSE IF ch = REPLACEMENT THEN <<"ef", "bf", "bd">>
    ELSE <<ch>>

RECURSIVE Utf8Encode(_)
Utf8Encode(text) ==
    IF text = <<>> THEN <<>>
    ELSE Utf8EncodeChar(Head(text)) \o Utf8Encode(Tail(text))

\* buf.toString('utf-8'): a byte that starts no complete sequence decodes to U+FFFD
RECURSIVE Utf8Decode(_)
Utf8Decode(buf) ==
    IF buf = <<>> THEN <<>>
    ELSE IF Head(buf) = "c3"
         THEN IF Len(buf) >= 2 /\ buf[2] = "a9"
              THEN <<E_ACUTE>> \o Utf8Decode(SubSeq(buf, 3, Len(buf)))
              ELSE <<REPLACEMENT>> \o Utf8Decode(Tail(buf))
    ELSE IF Head(buf) \in {"a9", "ef", "bf", "bd"}
         THEN <<REPLACEMENT>> \o Utf8Decode(Tail(buf))
    ELSE <<Head(buf)>> \o Utf8Decode(Tail(buf))

\* '\n... [truncated]'
TruncationMarker ==
    <<"\n", ".", ".", ".", " ", "[", "t", "r", "u", "n", "c", "a", "t", "e", "d", "]">>

\* fs.readSync(fd, buf, 0, maxBytes, 0) on a file of more than maxBytes bytes
ReadSync(bytes, maxBytes) == SubSeq(bytes, 1, maxBytes)

SafeReadFileBytes(file, maxBytes) ==
    IF ~file.exists THEN <<>>
    ELSE IF Len(file.bytes) > maxBytes
         THEN IF file.readable
              THEN Utf8Decode(ReadSync(file.bytes, maxBytes)) \o TruncationMarker
              ELSE <<>>
    ELSE IF file.readable THEN Utf8Decode(file.bytes) ELSE <<>>

\* the texts of at most n characters over the two characters
RECURSIVE Texts(_)
Texts(n) ==
    IF n = 0 THEN {<<>>}
    ELSE Texts(n - 1)
         \cup { Append(t, ch) : t \in Texts(n - 1), ch \in {"a", E_ACUTE} }

ReadableFiles ==
    { [exists |-> TRUE, readable |-> r, bytes |-> Utf8Encode(t)] :
        r \in BOOLEAN, t \in Texts(MaxFileChars) }

ScanIdle == repo = <<>> /\ unreadable = {} /\ stack = <<>> /\ files = <<>> /\ readDirs = {}

CtxIdle == manifest = NoManifest /\ disk = <<>> /\ context = NoContext

ReadFile ==
    /\ pc = "read"
    /\ pc' = "read_done"
    /\ rdResult' = SafeReadFileBytes(rdFile, rdMax)
    /\ UNCHANGED <<applyVars, scanVars, ctxVars, rdFile, rdMax, responseText, hookVars>>

InitRead ==
    /\ pc = "read"
    /\ rdFile \in ReadableFiles \cup {[exists |-> FALSE]}
    /\ rdMax \in 1..MaxCap
    /\ rdResult = <<>>
    /\ ApplyIdle /\ ScanIdle /\ CtxIdle /\ ParseIdle /\ HookIdle

NextRead == ReadFile

SpecRead == InitRead /\ [][NextRead]_vars

\* what the claim calls the content returned, as bytes
ReturnedBytes == Utf8Encode(rdResult)

\* C11: for every file and every cap, safeReadFile returns the full content
\* when the file has at most cap bytes, exactly the first cap bytes followed
\* by the truncation marker when it has more, and empty content when the
\* file does not exist or cannot be read.
C11_ByteCappedRead ==
    pc = "read_done" =>
        IF ~rdFile.exists \/ ~rdFile.readable THEN rdResult = <<>>
        ELSE IF Len(rdFile.bytes) <= rdMax THEN ReturnedBytes = rdFile.bytes
        ELSE ReturnedBytes = SubSeq(rdFile.bytes, 1, rdMax) \o Utf8Encode(TruncationMarker)

(***************************************************************************)
(* detectFramework over manifests (ai-driver.js 264-285).  A manifest maps *)
(* dependency names to version ranges; the empty string is a range too     *)
(* (npm reads it as "*").                                                  *)
(***************************************************************************)
MaxDeps == 2

MaxDevDeps == 1

DepNames == {"next", "react", "vue", "svelte", "@angular/core", "express", "lodash"}

VersionRanges == {"", "1.0.0"}

\* the objects with at most n of the names as keys
DepObjects(n) ==
    UNION { [ks -> VersionRanges] : ks \in { s \in SUBSET DepNames : Cardinality(s) <= n } }

FrameworkManifests ==
    { NoManifest, Pkg("invalid", TRUE, "", "", NoDeps, NoDeps) }
    \cup { Pkg("object", TRUE, "acme", "", d, dd) :
              d \in DepObjects(MaxDeps), dd \in DepObjects(MaxDevDeps) }

InitManifest ==
    /\ pc = "context"
    /\ ApplyIdle /\ ScanIdle /\ RestIdle
    /\ manifest \in FrameworkManifests
    /\ disk = <<>>
    /\ context = NoContext

NextManifest == BuildContext

SpecManifest == InitManifest /\ [][NextManifest]_vars

\* the dependency names of the manifest
DependencyNames ==
    IF ParsesToObject(manifest)
    THEN DOMAIN manifest.dependencies \cup DOMAIN manifest.devDependencies
    ELSE {}

PriorityList ==
    << <<"next", "Next.js">>, <<"react", "React">>, <<"vue", "Vue">>,
       <<"svelte", "Svelte">>, <<"@angular/core", "Angular">>, <<"express", "Express">> >>

RECURSIVE FirstPresent(_, _)
FirstPresent(list, names) ==
    IF list = <<>> THEN "Unknown"
    ELSE IF Head(list)[1] \in names THEN Head(list)[2]
    ELSE FirstPresent(Tail(list), names)

\* C12: the framework label is the label of the first name of the priority
\* list next, react, vue, svelte, @angular/core, express that is present in
\* the manifest's set of dependency names, and "Unknown" when none is present.
C12_FirstMatchOnNames ==
    (Built /\ ParsesToObject(manifest)) =>
        context.framework = FirstPresent(PriorityList, DependencyNames)

\* the part of C12 that holds: when no version range is the empty string the
\* label is the first match on names
FirstMatchWhenRangesNonEmpty ==
    (/\ Built /\ ParsesToObject(manifest)
     /\ \A n \in DOMAIN manifest.dependencies : manifest.dependencies[n] # ""
     /\ \A n \in DOMAIN manifest.devDependencies : manifest.devDependencies[n] # "")
        => context.framework = FirstPresent(PriorityList, DependencyNames)

(***************************************************************************)
(* The context of a repository without manifest, and how callClaude prints *)
(* the framework and the dependencies into the prompt (ai-driver.js        *)
(* 401-403, 429-431)                                                       *)
(***************************************************************************)
\* .slice(0, 10)
DepsShown == 10

\* ${context.framework || 'Unknown'}
PromptFramework_NoDefault(ctx) ==
    IF "framework" \in DOMAIN ctx THEN ctx.framework ELSE "undefined"

PromptFramework(ctx) ==
    IF "framework" \in DOMAIN ctx /\ ctx.framework # "" THEN ctx.framework ELSE "Unknown"

\* ${context.dependencies?.slice(0, 10).join(', ') || 'None'}: the names printed
PromptDependencies(ctx) ==
    IF "dependencies" \notin DOMAIN ctx \/ ctx.dependencies = {} THEN {"None"}
    ELSE IF Cardinality(ctx.dependencies) <= DepsShown THEN ctx.dependencies
    ELSE CHOOSE s \in SUBSET ctx.dependencies : Cardinality(s) = DepsShown

FrameworkLabels == {"Next.js", "React", "Vue", "Svelte", "Angular", "Express", "Unknown"}

NoReadme == \A k \in 1..Len(readmePatterns) : readmePatterns[k] \notin DOMAIN disk

\* C13 as stated: for a repository with no manifest and no readme the context
\* has framework "Unknown", an empty dependency list and no branding slot;
\* the framework field of every context is a label or "Unknown".
C13_EmptyRepositoryContext ==
    Built =>
        /\ "framework" \in DOMAIN context
        /\ context.framework \in FrameworkLabels
        /\ (~manifest.exists /\ NoReadme) =>
               /\ context.framework = "Unknown"
               /\ "dependencies" \in DOMAIN context
               /\ context.dependencies = {}
               /\ DOMAIN context.branding = {}

\* C13 (amended): the context has the fields framework and dependencies
\* exactly when package.json exists, and then framework is a label or
\* "Unknown"; without manifest the prompt prints the framework as "Unknown"
\* and the dependencies as "None"; a repository with no manifest, no readme
\* and no source file has an empty file list and no branding slot.
C13_DefaultsAtPrompt ==
    Built =>
        /\ ("framework" \in DOMAIN context) <=> manifest.exists
        /\ ("dependencies" \in DOMAIN context) <=> manifest.exists
        /\ manifest.exists => context.framework \in FrameworkLabels
        /\ PromptFramework(context) \in FrameworkLabels
        /\ ~manifest.exists =>
               /\ PromptFramework(context) = "Unknown"
               /\ PromptDependencies(context) = {"None"}
        /\ (~manifest.exists /\ NoReadme /\ files = <<>>) =>
               /\ context.files = <<>>
               /\ DOMAIN context.branding = {}

C13_Witness ==
    /\ Built
    /\ ~manifest.exists /\ NoReadme /\ files = <<>>
    /\ DOMAIN context = {"files", "branding"}
    /\ PromptFramework(context) = "Unknown"

(***************************************************************************)
(* webhook-driver.js.  The command line is a map from flag to value and    *)
(* the environment a map from name to value; "" stands for a flag or a     *)
(* variable that is not given (null, undefined and '' are all falsy).      *)
(* A payload is the list of its members in insertion order, each a pair of *)
(* key and value [t, v], t one of "string", "number", "NaN", "undefined".  *)
(***************************************************************************)
MaxClock == 2

\* getArg(name)
GetArg(name) == IF name \in DOMAIN args THEN args[name] ELSE ""

jobId == GetArg("--job-id")

status == GetArg("--status")

message == GetArg("--message")

webhookUrl == GetArg("--webhook-url")

prUrl == GetArg("--pr-url")

prNumber == GetArg("--pr-number")

githubRunUrl == GetArg("--github-run-url")

webhookSecret == env.RETOOLS_WEBHOOK_SECRET

Str(s) == [t |-> "string", v |-> s]

\* an environment variable that is not set reads as undefined
EnvValue(s) == IF s = "" THEN [t |-> "undefined", v |-> ""] ELSE Str(s)

\* ${process.env.X} in a template literal
EnvText(s) == IF s = "" THEN "undefined" ELSE s

IsDigit(c) == c \in {"0", "1", "2", "3", "4", "5", "6", "7", "8", "9"}

\* the longest prefix of s made of decimal digits
RECURSIVE Digits(_)
Digits(s) ==
    IF Len(s) = 0 \/ ~IsDigit(SubSeq(s, 1, 1)) THEN ""
    ELSE SubSeq(s, 1, 1) \o Digits(SubSeq(s, 2, Len(s)))

\* parseInt(s, 10)
ParseInt(s) ==
    IF Digits(s) = "" THEN [t |-> "NaN", v |-> ""] ELSE [t |-> "number", v |-> Digits(s)]

\* new Date().toISOString() at clock reading t
ToISOString(t) == "2026-01-01T00:00:0" \o ToString(t) \o ".000Z"

\* buildPayload() when the clock reads t
BuildPayloadAt(t) ==
    << <<"job_id", Str(jobId)>>,
       <<"status", Str(status)>>,
       <<"message", Str(IF message # "" THEN message ELSE "Status: " \o status)>>,
       <<"timestamp", Str(ToISOString(t))>>,
       <<"github_run_id", EnvValue(env.GITHUB_RUN_ID)>>,
       <<"github_run_url",
         Str(IF githubRunUrl # "" THEN githubRunUrl
             ELSE EnvText(env.GITHUB_SERVER_URL) \o "/" \o EnvText(env.GITHUB_REPOSITORY)
                  \o "/actions/runs/" \o EnvText(env.GITHUB_RUN_ID))>> >>
    \o (IF prUrl # "" THEN << <<"pr_url", Str(prUrl)>> >> ELSE <<>>)
    \o (IF prNumber # "" THEN << <<"pr_number", ParseInt(prNumber)>> >> ELSE <<>>)

\* JSON.stringify of a value: NaN is written as null
StringifyValue(val) ==
    IF val.t = "string" THEN "\"" \o val.v \o "\""
    ELSE IF val.t = "number" THEN val.v
    ELSE "null"

\* JSON.stringify of the members: a member whose value is undefined is left out
RECURSIVE StringifyMembers(_, _)
StringifyMembers(members, first) ==
    IF members = <<>> THEN ""
    ELSE IF Head(members)[2].t = "undefined" THEN StringifyMembers(Tail(members), first)
    ELSE (IF first THEN "" ELSE ",")
         \o "\"" \o Head(members)[1] \o "\":" \o StringifyValue(Head(members)[2])
         \o StringifyMembers(Tail(members), FALSE)

\* JSON.stringify(payload)
Stringify(p) == "{" \o StringifyMembers(p, TRUE) \o "}"

\* crypto.createHmac('sha256', key).update(text).digest('hex'), kept symbolic
Hmac(key, text) == <<"hmac-sha256-hex", key, text>>

\* generateSignature(payload)
GenerateSignature(p) == Hmac(webhookSecret, Stringify(p))

\* the clock advances while the payload is built, signed and handed to fetch
Tick ==
    /\ pc \in {"hook_build", "hook_sign", "hook_send"}
    /\ now < MaxClock
    /\ now' = now + 1
    /\ UNCHANGED <<pc, applyVars, scanVars, ctxVars, readVars, responseText,
                   args, env, payload, signature, request, response, attempts>>

\* lines 20-38: the usage check and the secret check
HookStart ==
    /\ pc = "hook"
    /\ pc' = IF jobId = "" \/ status = "" \/ webhookUrl = "" THEN "exit1"
             ELSE IF webhookSecret = "" THEN "exit1"
             ELSE "hook_build"
    /\ UNCHANGED <<applyVars, scanVars, ctxVars, readVars, responseText, hookVars>>

\* line 78: const payload = buildPayload()
HookBuild ==
    /\ pc = "hook_build"
    /\ payload' = BuildPayloadAt(now)
    /\ pc' = "hook_sign"
    /\ UNCHANGED <<applyVars, scanVars, ctxVars, readVars, responseText,
                   args, env, now, signature, request, response, attempts>>

\* line 79: const signature = generateSignature(payload)
HookSign ==
    /\ pc = "hook_sign"
    /\ signature' = GenerateSignature(payload)
    /\ pc' = "hook_send"
    /\ UNCHANGED <<applyVars, scanVars, ctxVars, readVars, responseText,
                   args, env, now, payload, request, response, attempts>>

\* the object serialized into the body at line 97
SentPayload_Rebuilt == BuildPayloadAt(now)

SentPayload == payload

\* lines 90-98: fetch(webhookUrl, { method: 'POST', headers, body })
HookSend ==
    /\ pc = "hook_send"
    /\ request' = [url |-> webhookUrl, signature |-> signature,
                   body |-> Stringify(SentPayload)]
    /\ attempts' = attempts + 1
    /\ pc' = "hook_await"
    /\ UNCHANGED <<applyVars, scanVars, ctxVars, readVars, responseText,
                   args, env, now, payload, signature, response>>

\* line 109: process.exit(0) in the catch block
CatchExit_Fail == "exit1"

CatchExit == "exit0"

Outcomes == {"2xx", "non-2xx", "error"}

\* lines 100-110: a 2xx response lets sendWebhook return; a response that is
\* not ok throws, and every throw inside the try is caught
HookRespond ==
    /\ pc = "hook_await"
    /\ \E outcome \in Outcomes :
         /\ response' = outcome
         /\ pc' = IF outcome = "2xx" THEN "returned" ELSE CatchExit
    /\ UNCHANGED <<applyVars, scanVars, ctxVars, readVars, responseText,
                   args, env, now, payload, signature, request, attempts>>

\* the exit status of the process, -1 while it runs
ExitStatus ==
    IF pc \in {"returned", "exit0"} THEN 0 ELSE IF pc = "exit1" THEN 1 ELSE -1

Flag(name, values) == { name :> v : v \in values }

HookArgs ==
    { a @@ b @@ c @@ d @@ e @@ f @@ g :
        a \in Flag("--job-id", {"", "job-1"}),
        b \in Flag("--status",
                   {"", "cloning_complete", "ai_complete", "completed", "failed", "retrying"}),
        c \in Flag("--message", {"", "done"}),
        d \in Flag("--webhook-url", {"", "https://app.example/hook"}),
        e \in Flag("--pr-url", {"", "https://github.com/o/r/pull/7"}),
        f \in Flag("--pr-number", {"", "7", "seven"}),
        g \in Flag("--github-run-url", {"", "https://github.com/o/r/actions/runs/77"}) }

HookEnvs ==
    [ RETOOLS_WEBHOOK_SECRET : {"", "s3cret"},
      GITHUB_RUN_ID : {"", "77"},
      GITHUB_SERVER_URL : {"https://github.com"},
      GITHUB_REPOSITORY : {"o/r"} ]

InitHook ==
    /\ pc = "hook"
    /\ ApplyIdle /\ ScanIdle /\ CtxIdle /\ ReadIdle /\ ParseIdle
    /\ args \in HookArgs
    /\ env \in HookEnvs
    /\ now = 0
    /\ payload = <<>> /\ signature = <<>> /\ request = <<>> /\ response = ""
    /\ attempts = 0

NextHook == Tick \/ HookStart \/ HookBuild \/ HookSign \/ HookSend \/ HookRespond

SpecHook == InitHook /\ [][NextHook]_vars

\* C14: once delivery is attempted the notifier never ends with a failure
\* status: whatever the outcome of the POST (2xx, non-2xx, transport error)
\* the exit status is 0, and there is at most one delivery attempt.
C14_NeverFatal ==
    /\ attempts <= 1
    /\ attempts = 1 => ExitStatus # 1
    /\ response # "" => ExitStatus = 0

C14_Witness ==
    /\ attempts = 1
    /\ response \in {"non-2xx", "error"}
    /\ ExitStatus = 0

\* the value of member `key` of payload p, undefined when p has no such member
Member(p, key) ==
    IF \E k \in 1..Len(p) : p[k][1] = key
    THEN p[CHOOSE k \in 1..Len(p) : p[k][1] = key][2]
    ELSE [t |-> "undefined", v |-> ""]

HasMember(p, key) == \E k \in 1..Len(p) : p[k][1] = key

StatusEnumeration == {"cloning_complete", "ai_complete", "completed", "failed"}

\* the statuses that end a job
CompletionClass == {"completed", "failed"}

\* C15: every payload that is signed and sent has a status of the closed
\* enumeration {cloning_complete, ai_complete, completed, failed} and carries
\* pr_url / pr_number only when the status is a completion-class status.
C15_PayloadSchema ==
    request # <<>> =>
        /\ Member(payload, "status").v \in StatusEnumeration
        /\ (HasMember(payload, "pr_url") \/ HasMember(payload, "pr_number"))
               => Member(payload, "status").v \in CompletionClass

\* the part of C15 about the enumeration alone
StatusInEnumeration ==
    request # <<>> => Member(payload, "status").v \in StatusEnumeration

\* the part of C15 about pr_url / pr_number alone
PrFieldsOnlyOnCompletion ==
    (request # <<>> /\ (HasMember(payload, "pr_url") \/ HasMember(payload, "pr_number")))
        => Member(payload, "status").v \in CompletionClass

\* C17: the x-webhook-signature header is the HMAC, under the shared secret,
\* of exactly the string sent as the body; the body is the serialization of
\* the payload that was built once and signed, timestamp included; signing
\* that payload again gives the same digest.
C17_SignedBytesAreSentBytes ==
    /\ signature # <<>> => signature = GenerateSignature(payload)
    /\ request # <<>> =>
           /\ request.signature = Hmac(webhookSecret, request.body)
           /\ request.body = Stringify(payload)
           /\ request.signature = signature

\* a delivery whose payload was built at an earlier clock reading than the
\* one at which the request was sent
C17_Witness ==
    /\ pc = "hook_await"
    /\ Member(payload, "timestamp").v # ToISOString(now)
    /\ request.signature = Hmac(webhookSecret, request.body)
    /\ request.body = Stringify(payload)

(***************************************************************************)
(* callClaude: recovery of the modifications from the response text        *)
(* (ai-driver.js 474-495).  The text is a sequence of tokens: the brackets *)
(* and the comma of JSON, two objects, and a word of prose that is not     *)
(* JSON.  A JSON value is [kind, name, items].                             *)
(***************************************************************************)
MaxTokens == 5

Tokens == {"[", "]", ",", "{a}", "{b}", "word"}

JsonObject(tok) == [kind |-> "object", name |-> tok, items |-> <<>>]

JsonArray(items) == [kind |-> "array", name |-> "", items |-> items]

ParseOk(value, rest) == [ok |-> TRUE, value |-> value, rest |-> rest]

\* JSON.parse throws a SyntaxError
SyntaxError == [ok |-> FALSE, value |-> JsonArray(<<>>), rest |-> <<>>]

RECURSIVE ParseValue(_)
RECURSIVE ParseElements(_, _)
\* one JSON value at the head of the tokens, and the tokens after it
ParseValue(toks) ==
    IF toks = <<>> THEN SyntaxError
    ELSE IF Head(toks) \in {"{a}", "{b}"} THEN ParseOk(JsonObject(Head(toks)), Tail(toks))
    ELSE IF Head(toks) = "["
         THEN IF Len(toks) >= 2 /\ toks[2] = "]"
              THEN ParseOk(JsonArray(<<>>), SubSeq(toks, 3, Len(toks)))
              ELSE ParseElements(Tail(toks), <<>>)
    ELSE SyntaxError

\* value (, value)* ] after an opening bracket
ParseElements(toks, acc) ==
    LET r == ParseValue(toks)
    IN  IF ~r.ok \/ r.rest = <<>> THEN SyntaxError
        ELSE IF Head(r.rest) = "]"
             THEN ParseOk(JsonArray(Append(acc, r.value)), Tail(r.rest))
        ELSE IF Head(r.rest) = ","
             THEN ParseElements(Tail(r.rest), Append(acc, r.value))
        ELSE SyntaxError

\* JSON.parse(text): the whole text must be one value
JsonParse(toks) ==
    LET r == ParseValue(toks)
    IN  IF r.ok /\ r.rest = <<>> THEN r ELSE SyntaxError

Positions(toks, tok) == { k \in 1..Len(toks) : toks[k] = tok }

SetMin(S) == CHOOSE x \in S : \A y \in S : x <= y

\* content.match(/\[[\s\S]*\]/): the match starts at the first '[' and, the
\* star being greedy, ends at the last ']' after it; no match is <<>>
JsonMatch(toks) ==
    LET opens  == Positions(toks, "[")
        closes == Positions(toks, "]")
    IN  IF opens = {} \/ closes = {} \/ SetMax(closes) < SetMin(opens) THEN <<>>
        ELSE SubSeq(toks, SetMin(opens), SetMax(closes))

\* lines 474-495 and the catch of main: a response that is not ok, a text
\* without match and a match that does not parse all end the job with exit 1
CallClaude ==
    /\ pc = "call"
    /\ LET jsonMatch == JsonMatch(responseText.text)
           parsed    == JsonParse(jsonMatch)
       IN  IF ~responseText.ok \/ jsonMatch = <<>> \/ ~parsed.ok
           THEN pc' = "exit1" /\ UNCHANGED modifications
           ELSE pc' = "apply" /\ modifications' = parsed.value.items
    /\ UNCHANGED <<fsFiles, fsDirs, modIdx, pass, origFiles, origDirs, onceFiles, onceDirs,
                   scanVars, ctxVars, readVars, responseText, hookVars>>

RECURSIVE TokenTexts(_)
TokenTexts(n) ==
    IF n = 0 THEN {<<>>}
    ELSE TokenTexts(n - 1)
         \cup { Append(t, tok) : t \in TokenTexts(n - 1), tok \in Tokens }

Responses ==
    { [ok |-> TRUE, text |-> t] : t \in TokenTexts(MaxTokens) }
    \cup { [ok |-> FALSE, text |-> <<"word">>] }

InitParse ==
    /\ pc = "call"
    /\ ApplyIdle /\ ScanIdle /\ CtxIdle /\ ReadIdle /\ HookIdle
    /\ responseText \in Responses

NextParse == CallClaude

SpecParse == InitParse /\ [][NextParse]_vars

\* the positions of the text at which a syntactically valid array starts
ValidArrayStarts(toks) ==
    { k \in Positions(toks, "[") : ParseValue(SubSeq(toks, k, Len(toks))).ok }

\* the first syntactically valid top-level array of the text
FirstValidArray(toks) ==
    ParseValue(SubSeq(toks, SetMin(ValidArrayStarts(toks)), Len(toks))).value

\* C16: for every response text the first syntactically valid top-level
\* array of the text is parsed as the ChangeSet, also when other bracketed
\* fragments stand before or after it, and the job fails only when the text
\* holds no recoverable array.
C16_RecoversFirstValidArray ==
    (pc # "call" /\ responseText.ok) =>
        IF ValidArrayStarts(responseText.text) # {}
        THEN /\ pc = "apply"
             /\ modifications = FirstValidArray(responseText.text).items
        ELSE pc = "exit1"

\* the part of C16 that holds: a text without any valid array fails the job,
\* and a ChangeSet that is returned is a valid array of the text
FailsWithoutArray ==
    (pc # "call" /\ responseText.ok) =>
        /\ ValidArrayStarts(responseText.text) = {} => pc = "exit1"
        /\ pc = "apply" =>
               \E k \in ValidArrayStarts(responseText.text) :
                   modifications = ParseValue(SubSeq(responseText.text, k,
                                                     Len(responseText.text))).value.items

====
